---- MODULE Spec2Model ----
(***************************************************************************)
(* Piecewise<T> of lib2geom (src/src/piecewise.h): the container, its      *)
(* domain transforms and concatenation, segN/segT, partition, portion,     *)
(* the scalar operators and the general case of compose.                   *)
(*                                                                         *)
(* Cuts are doubles in the source; here they are integers of a grid, and   *)
(* the times local to a segment, which the source gets by division, are    *)
(* exact rationals <<numerator, denominator>>.  Sequences are indexed from *)
(* 0 as in the source: At(s, i) is s[i].                                   *)
(***************************************************************************)
EXTENDS Integers, Sequences, FiniteSets, TLC

\* ------------------------------------------------------------------ bounds
MaxCut == 4          \* cuts and times of the inputs lie in 0..MaxCut
MaxSegs == 3         \* segments of an input Piecewise
MaxExtra == 2        \* values of an extraCuts argument
MaxSteps == 2        \* mutations applied to one object
MaxPb == 3           \* entries of a pullback table

\* ------------------------------------------------------- double arithmetic
Abs(x) == IF x < 0 THEN 0 - x ELSE x

RECURSIVE Gcd(_, _)
Gcd(x, y) == IF y = 0 THEN x ELSE Gcd(y, x % y)

\* n/d in lowest terms, d > 0; a zero divisor gives what IEEE division
\* gives: <<1,0>> and <<-1,0>> are the infinities, <<0,0>> is NaN.
Rat(n, d) ==
    IF d = 0 THEN <<IF n > 0 THEN 1 ELSE IF n < 0 THEN -1 ELSE 0, 0>>
    ELSE LET g == Gcd(Abs(n), Abs(d))
             s == IF d < 0 THEN -1 ELSE 1
         IN  <<(s * n) \div g, (s * d) \div g>>

Zero == Rat(0, 1)
One == Rat(1, 1)
RAdd(x, y) == Rat(x[1] * y[2] + y[1] * x[2], x[2] * y[2])
RSub(x, y) == Rat(x[1] * y[2] - y[1] * x[2], x[2] * y[2])
RMul(x, y) == Rat(x[1] * y[1], x[2] * y[2])
RDiv(x, y) == Rat(x[1] * y[2], x[2] * y[1])

\* ------------------------------------------------------------- sequences
At(s, i) == s[i + 1]
Front(s) == s[1]
Back(s) == s[Len(s)]
\* s[from], ..., s[to - 1]
Slice(s, from, to) == [j \in 1..(IF to > from THEN to - from ELSE 0) |-> s[from + j]]

\* A read of v[i] by operator[], which checks nothing: outside the vector
\* the value read is whatever lies there, g.
Read(v, i, g) == IF i >= 0 /\ i < Len(v) THEN v[i + 1] ELSE g

\* ---------------------------------------------- the segment type T (given)
\* A segment is base function `id` seen through the local range [a, b],
\* scaled by k and offset by c:  s(u) = k * base_id(a + u * (b - a)) + c.
BaseSeg(id) == [id |-> id, a |-> Zero, b |-> One, k |-> One, c |-> Zero]
\* T(v): the constant v
ConstSeg(v) == [id |-> 0, a |-> Zero, b |-> One, k |-> Zero, c |-> v]
\* T()
DefaultSeg == ConstSeg(Zero)
\* the point of the base function that local time u of s stands for
SegPoint(s, u) == RAdd(s.a, RMul(u, RSub(s.b, s.a)))
\* portion(s, from, to)
SegPortion(s, from, to) == [s EXCEPT !.a = SegPoint(s, from), !.b = SegPoint(s, to)]
\* base_id(p)
BaseValue(id, p) == RAdd(Rat(id, 1), p)
\* s(u), as a number
SegValue(s, u) == RAdd(RMul(s.k, BaseValue(s.id, SegPoint(s, u))), s.c)
\* s(u), as the point of the base function it is taken from
SegAt(s, u) == [id |-> s.id, p |-> SegPoint(s, u), k |-> s.k, c |-> s.c]
\* s + y, s - y, s * m, s / m
SegOffset(s, y) == [s EXCEPT !.c = RAdd(@, y)]
SegScale(s, m) == [s EXCEPT !.k = RMul(@, m), !.c = RMul(@, m)]

\* ------------------------------------------------------------ Piecewise
\* A Piecewise value: its cuts, its segs, and ok: FALSE once an assertion
\* has failed in the computation that produced it (the program has ended).
Pw(cs, ss) == [cuts |-> cs, segs |-> ss, ok |-> TRUE]
EmptyPw == Pw(<<>>, <<>>)
Fail(pw) == [pw EXCEPT !.ok = FALSE]

size(pw) == Len(pw.segs)
empty(pw) == pw.segs = <<>>

push_cut(pw, c) ==
    IF ~pw.ok THEN pw
    ELSE IF pw.cuts = <<>> \/ c > Back(pw.cuts)
         THEN [pw EXCEPT !.cuts = Append(@, c)]
         ELSE Fail(pw)

push_seg(pw, s) == IF ~pw.ok THEN pw ELSE [pw EXCEPT !.segs = Append(@, s)]

push(pw, s, to) ==
    IF ~pw.ok THEN pw
    ELSE IF Len(pw.cuts) - Len(pw.segs) = 1
         THEN push_cut(push_seg(pw, s), to)
         ELSE Fail(pw)

\* Piecewise(const T &s), Piecewise(const output_type &v)
PiecewiseOf(s) == push_cut(push_seg(push_cut(EmptyPw, 0), s), 1)

invariants(pw) ==
    /\ (Len(pw.segs) + 1 = Len(pw.cuts) \/ (pw.segs = <<>> /\ pw.cuts = <<>>))
    /\ \A i \in 0..(Len(pw.segs) - 1) : At(pw.cuts, i) < At(pw.cuts, i + 1)

\* ------------------------------------------------------------ segN, segT
\* mutant of below_next: <= for <
below_next_or_at(cuts, t, mid, g) == t <= Read(cuts, mid + 1, g)

\* if(t < cuts[mid + 1]) return mid; else low = mid + 1;
below_next(cuts, t, mid, g) == t < Read(cuts, mid + 1, g)

\* The binary search of segN.  reads: the indices of cuts read so far.
\* An index below 0 stands for the unsigned value it wraps to (size() - 1 of
\* a Piecewise without segments): either way it is outside every vector.
RECURSIVE segN_search(_, _, _, _, _, _)
segN_search(cuts, t, low, high, g, reads) ==
    IF ~(low < high) THEN [n |-> low, reads |-> reads]
    ELSE LET mid == (high + low) \div 2
             mv == Read(cuts, mid, g)
         IN  IF mv < t
             THEN IF below_next(cuts, t, mid, g)
                  THEN [n |-> mid, reads |-> reads \cup {mid, mid + 1}]
                  ELSE segN_search(cuts, t, mid + 1, high, g, reads \cup {mid, mid + 1})
             ELSE IF t < mv
             THEN IF Read(cuts, mid - 1, g) < t
                  THEN [n |-> mid - 1, reads |-> reads \cup {mid, mid - 1}]
                  ELSE segN_search(cuts, t, low, mid - 1, g, reads \cup {mid, mid - 1})
             ELSE [n |-> mid, reads |-> reads \cup {mid}]

\* segN(t, low, high): n is the index returned.
segN(pw, t, low, high, g) ==
    LET hi == IF high = -1 THEN size(pw) ELSE high
    IN  IF t < Read(pw.cuts, 0, g) THEN [n |-> 0, reads |-> {0}]
        ELSE IF t >= Read(pw.cuts, size(pw), g)
             THEN [n |-> size(pw) - 1, reads |-> {0, size(pw)}]
             ELSE segN_search(pw.cuts, t, low, hi, g, {0, size(pw)})

\* segT(t, i), i given
segT(pw, t, i, g) ==
    Rat(t - Read(pw.cuts, i, g), Read(pw.cuts, i + 1, g) - Read(pw.cuts, i, g))

\* valueAt(t): the point of the base function the value is taken at
valueAt(pw, t, g) ==
    LET n == segN(pw, t, 0, -1, g).n
    IN  SegAt(Read(pw.segs, n, DefaultSeg), segT(pw, t, n, g))

\* ------------------------------------------------- elem_portion, partition
\* mutant of elem_portion: the local times are not divided by the width
elem_portion_unscaled(a, i, from, to) ==
    IF ~(i < size(a)) THEN [ok |-> FALSE, seg |-> DefaultSeg]
    ELSE [ok |-> TRUE,
          seg |-> SegPortion(At(a.segs, i),
                             Rat(from - At(a.cuts, i), 1),
                             Rat(to - At(a.cuts, i), 1))]

\* ok: the assertion i < a.size() holds
elem_portion(a, i, from, to) ==
    IF ~(i < size(a)) THEN [ok |-> FALSE, seg |-> DefaultSeg]
    ELSE LET rwidth == RDiv(One, Rat(At(a.cuts, i + 1) - At(a.cuts, i), 1))
         IN  [ok |-> TRUE,
              seg |-> SegPortion(At(a.segs, i),
                                 RMul(Rat(from - At(a.cuts, i), 1), rwidth),
                                 RMul(Rat(to - At(a.cuts, i), 1), rwidth))]

\* ret.push(elem_portion(a, i, from, to), to)
push_elem_portion(ret, a, i, from, to) ==
    LET e == elem_portion(a, i, from, to)
    IN  IF e.ok THEN push(ret, e.seg, to) ELSE Fail(ret)

\* The state of partition's loops: ret, si, ci, prev; returned: the return
\* inside the main loop was taken; oob: c was read outside 0..c.size()-1.

\* while(c[ci] < pw.cuts.front() && ci < c.size())
RECURSIVE partition_leading(_, _, _, _)
partition_leading(pw, c, g, st) ==
    IF ~st.ret.ok THEN st
    ELSE IF Read(c, st.ci, g) < Front(pw.cuts) /\ st.ci < Len(c)
    THEN LET ci == st.ci
             isLast == (ci = Len(c) - 1) \/ At(c, ci + 1) >= Front(pw.cuts)
             r1 == push_cut(st.ret, At(c, ci))
             e == elem_portion(pw, 0, At(c, ci),
                               IF isLast THEN Front(pw.cuts) ELSE At(c, ci + 1))
             r2 == IF e.ok THEN push_seg(r1, e.seg) ELSE Fail(r1)
         IN  partition_leading(pw, c, g, [st EXCEPT !.ret = r2, !.ci = ci + 1])
    ELSE [st EXCEPT !.oob = @ \/ st.ci >= Len(c)]

\* mutant of coincident: the cut that ends the segment, not the one that starts it
coincident_with_end(pw, c, si, ci) == At(c, ci) = At(pw.cuts, si + 1)

\* else if(c[ci] == pw.cuts[si])
coincident(pw, c, si, ci) == At(c, ci) = At(pw.cuts, si)

\* while(si < pw.size() && ci <= c.size())
RECURSIVE partition_main(_, _, _)
partition_main(pw, c, st) ==
    IF ~st.ret.ok THEN st
    ELSE IF ~(st.si < size(pw) /\ st.ci <= Len(c)) THEN st
    ELSE LET si == st.si
             ci == st.ci
             prev == st.prev
         IN  IF ci = Len(c) /\ prev <= At(pw.cuts, si)
             THEN [st EXCEPT !.returned = TRUE,
                             !.ret.segs = @ \o Slice(pw.segs, si, size(pw)),
                             !.ret.cuts = @ \o Slice(pw.cuts, si + 1, Len(pw.cuts))]
             ELSE IF ci = Len(c) \/ At(c, ci) >= At(pw.cuts, si + 1)
             THEN LET r1 == IF prev > At(pw.cuts, si)
                            THEN push_seg(st.ret, SegPortion(At(pw.segs, si),
                                                             segT(pw, prev, si, 0), One))
                            ELSE push_seg(st.ret, At(pw.segs, si))
                  IN  partition_main(pw, c,
                          [st EXCEPT !.ret = push_cut(r1, At(pw.cuts, si + 1)),
                                     !.prev = At(pw.cuts, si + 1),
                                     !.si = si + 1])
             ELSE IF coincident(pw, c, si, ci)
             THEN partition_main(pw, c, [st EXCEPT !.ci = ci + 1])
             ELSE partition_main(pw, c,
                      [st EXCEPT !.ret = push_elem_portion(st.ret, pw, si, prev, At(c, ci)),
                                 !.prev = At(c, ci),
                                 !.ci = ci + 1])

\* mutant of beyond: >= for >
beyond_or_at(c, ci, prev) == At(c, ci) >= prev

\* if(c[ci] > prev), in the loop after the domain
beyond(c, ci, prev) == At(c, ci) > prev

\* while(ci < c.size())
RECURSIVE partition_trailing(_, _, _)
partition_trailing(pw, c, st) ==
    IF ~st.ret.ok \/ st.returned THEN st
    ELSE IF ~(st.ci < Len(c)) THEN st
    ELSE IF beyond(c, st.ci, st.prev)
         THEN partition_trailing(pw, c,
                  [st EXCEPT !.ret = push_elem_portion(st.ret, pw, size(pw) - 1,
                                                       st.prev, At(c, st.ci)),
                             !.prev = At(c, st.ci),
                             !.ci = st.ci + 1])
         ELSE partition_trailing(pw, c, [st EXCEPT !.ci = st.ci + 1])

\* partition(pw, c), with its loop state at the end.  g: what c[c.size()] reads.
partition_run(pw, c, g) ==
    LET st0 == [ret |-> EmptyPw, si |-> 0, ci |-> 0, prev |-> 0,
                returned |-> FALSE, oob |-> FALSE]
    IN  IF c = <<>> THEN [st0 EXCEPT !.ret = pw, !.returned = TRUE]
        ELSE IF empty(pw)
        THEN [st0 EXCEPT !.returned = TRUE,
                         !.ret = Pw(c, [i \in 1..(Len(c) - 1) |-> DefaultSeg])]
        ELSE LET st1 == partition_leading(pw, c, g, st0)
                 st2 == [st1 EXCEPT !.ret = push_cut(@, At(pw.cuts, 0)),
                                    !.prev = At(pw.cuts, 0)]
             IN  partition_trailing(pw, c, partition_main(pw, c, st2))

partition(pw, c, g) == partition_run(pw, c, g).ret

\* ------------------------------------------------------------------ portion
Min(x, y) == IF x < y THEN x ELSE y
Max(x, y) == IF x < y THEN y ELSE x

\* portion(pw, from, to)
portion(pw, from0, to0, g) ==
    IF empty(pw) \/ from0 = to0 THEN EmptyPw
    ELSE LET from == Min(from0, to0)
             to == Max(from0, to0)
             i == segN(pw, from, 0, -1, g).n
             r0 == push_cut(EmptyPw, from)
         IN  IF i = size(pw) - 1 \/ to < At(pw.cuts, i + 1)
             THEN push_elem_portion(r0, pw, i, from, to)
             ELSE LET r1 == push_seg(r0, SegPortion(At(pw.segs, i),
                                                    segT(pw, from, i, g), One))
                      j == i + 1
                      fi == segN(pw, to, j, -1, g).n
                      r2 == [r1 EXCEPT !.segs = @ \o Slice(pw.segs, j, fi),
                                       !.cuts = @ \o Slice(pw.cuts, j, fi + 1)]
                      r3 == push_seg(r2, SegPortion(At(pw.segs, fi), Zero,
                                                    segT(pw, to, fi, g)))
                  IN  IF to # Back(r3.cuts) THEN push_cut(r3, to) ELSE r3

\* ------------------------------------------------------ remove_short_cuts
\* for(i = 0; i < f.size(); i++) of remove_short_cuts_extending
RECURSIVE remove_short_cuts_extending_loop(_, _, _, _, _)
remove_short_cuts_extending_loop(f, tol, ret, last, i) ==
    IF ~ret.ok \/ ~(i < size(f)) THEN ret
    ELSE IF At(f.cuts, i + 1) - At(f.cuts, i) >= tol
    THEN remove_short_cuts_extending_loop(f, tol,
             push_elem_portion(ret, f, i, last, At(f.cuts, i + 1)),
             At(f.cuts, i + 1), i + 1)
    ELSE remove_short_cuts_extending_loop(f, tol, ret, last, i + 1)

\* remove_short_cuts_extending(f, tol); g: what f.cuts[0] reads when f has
\* no cuts
remove_short_cuts_extending(f, tol, g) ==
    LET first == Read(f.cuts, 0, g)
    IN  remove_short_cuts_extending_loop(f, tol, push_cut(EmptyPw, first), first, 0)

\* --------------------------------------------- domain transforms, concat
\* mutant of offsetDomain: the loop stops at i < size(), the last cut stays
offsetDomain_short(pw, o, crash) ==
    IF o # 0
    THEN IF pw.cuts = <<>> THEN (IF crash THEN Fail(pw) ELSE pw)
         ELSE [pw EXCEPT !.cuts = [i \in DOMAIN @ |-> IF i - 1 < size(pw) THEN @[i] + o ELSE @[i]]]
    ELSE pw

\* The loops of the transforms run over i = 0 .. size().
\* The loops of offsetDomain and scaleDomain write cuts[0] .. cuts[size()];
\* when cuts is empty cuts[0] is outside the vector: the write either
\* changes nothing the object can see or ends the program (crash).
offsetDomain(pw, o, crash) ==
    IF o # 0
    THEN IF pw.cuts = <<>> THEN (IF crash THEN Fail(pw) ELSE pw)
         ELSE [pw EXCEPT !.cuts = [i \in DOMAIN @ |->
                                      IF i - 1 <= size(pw) THEN @[i] + o ELSE @[i]]]
    ELSE pw

\* s is a rational; the result's cuts are rationals
scaleDomain(pw, s, crash) ==
    IF ~(s[1] > 0) THEN Fail(pw)
    ELSE IF s[1] = 0 THEN EmptyPw
    ELSE IF pw.cuts = <<>> THEN (IF crash THEN Fail(pw) ELSE pw)
    ELSE [pw EXCEPT !.cuts = [i \in DOMAIN @ |->
                                 IF i - 1 <= size(pw) THEN RMul(Rat(@[i], 1), s) ELSE @[i]]]

\* Interval(u, v)
Interval(u, v) == [min |-> Min(u, v), max |-> Max(u, v)]
isEmpty(dom) == dom.min = dom.max
extent(dom) == dom.max - dom.min

\* the result's cuts are rationals
setDomain(pw, dom) ==
    IF empty(pw) THEN pw
    ELSE IF isEmpty(dom) THEN EmptyPw
    ELSE LET cf == Front(pw.cuts)
             o == dom.min - cf
             s == Rat(extent(dom), Back(pw.cuts) - cf)
         IN  [pw EXCEPT !.cuts = [i \in DOMAIN @ |->
                                     IF i - 1 <= size(pw)
                                     THEN RAdd(RMul(Rat(@[i] - cf, 1), s), Rat(o, 1))
                                     ELSE @[i]]]

\* The grid: a transform is applied only where every new cut is an integer.
OnGrid(pw) == \A i \in DOMAIN pw.cuts : pw.cuts[i][2] = 1
ToGrid(pw) == [pw EXCEPT !.cuts = [i \in DOMAIN @ |-> @[i][1]]]

RECURSIVE concat_cuts(_, _, _, _)
concat_cuts(pw, other, t, i) ==
    IF ~(i < size(other)) THEN pw
    ELSE concat_cuts(push_cut(pw, At(other.cuts, i + 1) + t), other, t, i + 1)

concat(pw, other) ==
    IF empty(other) THEN pw
    ELSE IF empty(pw) THEN [pw EXCEPT !.cuts = other.cuts, !.segs = other.segs]
    ELSE LET t == Back(pw.cuts) - Front(other.cuts)
         IN  concat_cuts([pw EXCEPT !.segs = @ \o other.segs], other, t, 0)

RECURSIVE continuousConcat_push(_, _, _, _, _)
continuousConcat_push(pw, other, y, t, i) ==
    IF ~(i < size(other)) THEN pw
    ELSE continuousConcat_push(
             push(pw, SegOffset(At(other.segs, i), y), At(other.cuts, i + 1) + t),
             other, y, t, i + 1)

\* segs.back() is taken before empty() is tested; when segs is empty it is
\* outside the vector: gy.crash: the read ends the program, else gy.v is
\* what segs.back().at1() gives
continuousConcat(pw, other, gy) ==
    IF empty(other) THEN pw
    ELSE IF pw.segs = <<>> /\ gy.crash THEN Fail(pw)
    ELSE LET at1 == IF pw.segs = <<>> THEN gy.v ELSE SegValue(Back(pw.segs), One)
             y == RSub(at1, SegValue(Front(other.segs), Zero))
         IN  IF empty(pw)
             THEN [pw EXCEPT !.segs = @ \o [i \in DOMAIN other.segs |->
                                               SegOffset(other.segs[i], y)],
                             !.cuts = other.cuts]
             ELSE continuousConcat_push(pw, other, y,
                                        Back(pw.cuts) - Front(other.cuts), 0)

\* ------------------------------------------------------ scalar operators
\* a[i] + y and a[i] * m for every i < a.size()
OffsetSegs(pw, y) == [pw EXCEPT !.segs = [i \in DOMAIN @ |-> SegOffset(@[i], y)]]
ScaleSegs(pw, m) == [pw EXCEPT !.segs = [i \in DOMAIN @ |-> SegScale(@[i], m)]]
Neg(y) == RSub(Zero, y)
Inv(y) == RDiv(One, y)

\* operator+(a, b), operator-(a, b): ret.cuts = a.cuts, then a push_seg each
OpAdd(a, b) == OffsetSegs(Pw(a.cuts, a.segs), b)
OpSub(a, b) == OffsetSegs(Pw(a.cuts, a.segs), Neg(b))
\* operator*(a, b), operator/(a, b)
OpMul(a, b) ==
    IF empty(a) THEN EmptyPw ELSE ScaleSegs(Pw(a.cuts, a.segs), b)
OpDiv(a, b) ==
    IF empty(a) THEN EmptyPw ELSE ScaleSegs(Pw(a.cuts, a.segs), Inv(b))

\* operator+=(a, b), operator-=(a, b): a afterwards
OpAddAssign(a, b) ==
    IF empty(a) THEN push(push_cut(a, 0), ConstSeg(b), 1)
    ELSE OffsetSegs(a, b)
OpSubAssign(a, b) ==
    IF empty(a) THEN push(push_cut(a, 0), ConstSeg(b), 1)
    ELSE OffsetSegs(a, Neg(b))
\* operator*=(a, b), operator/=(a, b): a afterwards
OpMulAssign(a, b) ==
    IF empty(a) THEN a ELSE ScaleSegs(a, b)
OpDivAssign(a, b) ==
    IF empty(a) THEN a ELSE ScaleSegs(a, Inv(b))

\* --------------------------------------------------- binary operators
\* pa[i] + pb[i], pa[i] - pb[i], pa[i] * pb[i]
SegBinary(op, l, r) == [op |-> op, l |-> l, r |-> r]

\* operator+, operator-, operator*(a, b): the two partitions and the result
binary(a, b, op, g) ==
    LET pa == partition(a, b.cuts, g)
        pb == partition(b, a.cuts, g)
    IN  [pa |-> pa, pb |-> pb,
         ret |-> IF pa.ok /\ pb.ok /\ size(pa) = size(pb)
                 THEN Pw(pa.cuts, [i \in 1..size(pa) |->
                                      SegBinary(op, pa.segs[i], pb.segs[i])])
                 ELSE Fail(EmptyPw)]

\* ------------------------------------------------------------------ state
VARIABLES
    this,    \* the Piecewise object the mutations act on
    last,    \* the last mutation: its name, its scalar operand, this before it
    steps,   \* mutations applied so far
    call,    \* the function called and its arguments
    out,     \* what the call has computed
    pc       \* "idle" | "start" | "loop" | "done"

vars == <<this, last, steps, call, out, pc>>

\* ----------------------------------------------------------------- inputs
Range(s) == {s[i] : i \in DOMAIN s}
Ascending(s) == \A i \in 1..(Len(s) - 1) : s[i] < s[i + 1]
Times == 0..MaxCut
\* what a read outside a vector may give
Garbage == {-1, 1, MaxCut + 1}
Values == {Rat(1, 1), Rat(2, 1)}
CutSeqs(n) == UNION {[1..m -> Times] : m \in 0..n}
\* Piecewise values that meet invariants(): empty, one cut and no segment,
\* or n segments between n + 1 ascending cuts
PwInputs ==
    {Pw(cs, [i \in 1..(Len(cs) - 1) |-> BaseSeg(i)]) :
        cs \in {s \in CutSeqs(MaxSegs + 1) : Ascending(s)}}

NoCall == [fn |-> "none", a |-> EmptyPw, b |-> EmptyPw, c |-> <<>>, op |-> "",
           t |-> 0, from |-> 0, to |-> 0, g |-> 0, pb |-> <<>>, tol |-> 0]

\* ---------------------------------------------------- the object's life
Mutated(name, x, new) ==
    /\ this.ok
    /\ steps < MaxSteps
    /\ new.ok => (Range(new.cuts) \subseteq Times /\ size(new) <= MaxSegs + 1)
    /\ this' = new
    /\ last' = [op |-> name, x |-> x, before |-> this]
    /\ steps' = steps + 1
    /\ UNCHANGED <<call, out, pc>>

Push(s, to) == Mutated("push", Zero, push(this, s, to))

OffsetDomain(o, crash) ==
    Mutated("offsetDomain", Rat(o, 1), offsetDomain(this, o, crash))

ScaleDomain(s, crash) ==
    LET new == scaleDomain(this, s, crash)
    IN  /\ new.ok => OnGrid(new)
        /\ Mutated("scaleDomain", s, IF new.ok THEN ToGrid(new) ELSE new)

SetDomain(u, v) ==
    LET new == setDomain(this, Interval(u, v))
    IN  IF empty(this) \/ isEmpty(Interval(u, v))
        THEN Mutated("setDomain", Zero, new)
        ELSE /\ OnGrid(new)
             /\ Mutated("setDomain", Zero, ToGrid(new))

Concat(other) == Mutated("concat", other, concat(this, other))

ContinuousConcat(other, gy) ==
    Mutated("continuousConcat", other, continuousConcat(this, other, gy))

AddAssign(b) == Mutated("+=", b, OpAddAssign(this, b))
SubAssign(b) == Mutated("-=", b, OpSubAssign(this, b))
MulAssign(b) == Mutated("*=", b, OpMulAssign(this, b))
DivAssign(b) == Mutated("/=", b, OpDivAssign(this, b))

Others == {EmptyPw, PiecewiseOf(BaseSeg(2)), Pw(<<1, 2, 4>>, <<BaseSeg(3), BaseSeg(4)>>)}
ScaleFactors == {Rat(-1, 1), Rat(0, 1), Rat(1, 2), Rat(2, 1)}

\* the outcomes of cuts[0] op= ... and of segs.back() on empty vectors
OutsideWrite == IF this.cuts = <<>> THEN BOOLEAN ELSE {FALSE}
OutsideValue ==
    IF this.segs = <<>>
    THEN {[crash |-> TRUE, v |-> Zero]} \cup {[crash |-> FALSE, v |-> v] : v \in Values}
    ELSE {[crash |-> FALSE, v |-> Zero]}

Init ==
    /\ this \in {EmptyPw, PiecewiseOf(BaseSeg(1))} \cup {PiecewiseOf(ConstSeg(v)) : v \in Values}
    /\ last = [op |-> "new", x |-> Zero, before |-> EmptyPw]
    /\ steps = 0
    /\ call = NoCall
    /\ out = EmptyPw
    /\ pc = "idle"

Next ==
    \/ \E s \in {BaseSeg(1), BaseSeg(2)}, to \in Times : Push(s, to)
    \/ \E o \in {-1, 0, 1}, crash \in OutsideWrite : OffsetDomain(o, crash)
    \/ \E s \in ScaleFactors, crash \in OutsideWrite : ScaleDomain(s, crash)
    \/ \E u \in Times, v \in Times : SetDomain(u, v)
    \/ \E other \in Others : Concat(other)
    \/ \E other \in Others, gy \in OutsideValue : ContinuousConcat(other, gy)
    \/ \E b \in Values : AddAssign(b)
    \/ \E b \in Values : SubAssign(b)
    \/ \E b \in Values : MulAssign(b)
    \/ \E b \in Values : DivAssign(b)

Spec == Init /\ [][Next]_vars

\* ------------------------------------------------------- function calls
\* The free functions and the queries, each called once on arguments drawn
\* from the inputs above.

\* a table of compose_pullback: <<time, tag>> entries in the order of the
\* map, the times ascending from 0, each tag an index of a segment of f
PbTables(f) ==
    UNION {{[i \in 1..n |-> <<i - 1, tags[i]>>] : tags \in [1..n -> 0..(size(f) - 1)]} :
              n \in 2..MaxPb}

PartitionCall(a, c, g) == [NoCall EXCEPT !.fn = "partition", !.a = a, !.c = c, !.g = g]
BinaryCall(a, b, op, g) == [NoCall EXCEPT !.fn = "binary", !.a = a, !.b = b, !.op = op, !.g = g]
PortionCall(a, from, to, t, g) ==
    [NoCall EXCEPT !.fn = "portion", !.a = a, !.from = from, !.to = to, !.t = t, !.g = g]
SegNCall(a, t, g) == [NoCall EXCEPT !.fn = "segN", !.a = a, !.t = t, !.g = g]
RemoveShortCall(f, tol, g) ==
    [NoCall EXCEPT !.fn = "remove_short_cuts_extending", !.a = f, !.tol = tol, !.g = g]
\* the tolerances: none short, and the segments of width 1 short
Tols == {0, 2}
ComposeCall(f, pb) == [NoCall EXCEPT !.fn = "compose", !.a = f, !.pb = pb]

Returns(fn, result) ==
    /\ pc = "start"
    /\ call.fn = fn
    /\ out' = result
    /\ pc' = "done"
    /\ UNCHANGED <<this, last, steps, call>>

DoPartition == Returns("partition", partition_run(call.a, call.c, call.g))
DoBinary == Returns("binary", binary(call.a, call.b, call.op, call.g))
DoPortion == Returns("portion", portion(call.a, call.from, call.to, call.g))
DoSegN == Returns("segN", segN(call.a, call.t, 0, -1, call.g))
DoRemoveShort ==
    Returns("remove_short_cuts_extending",
            remove_short_cuts_extending(call.a, call.tol, call.g))

\* compose(f, g), the general case: from result.cuts.push_back(0.) on.
\* out.cut: the place of the iterator cut in the table; out.diff: the
\* difference of tags the last check saw; out.pushed: segments appended.
ComposeStart ==
    /\ pc = "start"
    /\ call.fn = "compose"
    /\ out' = [result |-> Pw(<<0>>, <<>>), cut |-> 0, diff |-> 0, pushed |-> 0]
    /\ pc' = "loop"
    /\ UNCHANGED <<this, last, steps, call>>

\* assert(std::abs(int((*cut).second-(*next).second))<1)
pullback_consistent(d) == d < 1

\* one turn of while(next!=cuts_pb.end()); idx is what compose_findSegIdx gives
ComposeStep(idx) ==
    /\ pc = "loop"
    /\ out.cut + 1 < Len(call.pb)
    /\ LET cut == At(call.pb, out.cut)
           next == At(call.pb, out.cut + 1)
           d == Abs(cut[2] - next[2])
           t0 == cut[1]
           t1 == next[1]
       IN  IF ~pullback_consistent(d)
           THEN /\ idx = 0
                /\ out' = [out EXCEPT !.result = Fail(@), !.diff = d]
                /\ pc' = "done"
           ELSE /\ out' = [out EXCEPT
                           !.result = push(@, [seg |-> At(call.a.segs, idx),
                                               t0 |-> t0, t1 |-> t1], t1),
                           !.cut = @ + 1, !.diff = d, !.pushed = @ + 1]
                /\ pc' = "loop"
    /\ UNCHANGED <<this, last, steps, call>>

ComposeReturn ==
    /\ pc = "loop"
    /\ ~(out.cut + 1 < Len(call.pb))
    /\ pc' = "done"
    /\ UNCHANGED <<this, last, steps, call, out>>

InitFn ==
    /\ this = EmptyPw
    /\ last = [op |-> "new", x |-> Zero, before |-> EmptyPw]
    /\ steps = 0
    /\ out = EmptyPw
    /\ pc = "start"
    /\ \E a \in PwInputs :
          \/ \E c \in CutSeqs(MaxExtra) \cup {a.cuts}, g \in Garbage :
                call = PartitionCall(a, c, g)
          \/ \E b \in PwInputs, op \in {"+", "-", "*"}, g \in {-1, MaxCut + 1} :
                call = BinaryCall(a, b, op, g)
          \/ \E from \in Times, to \in Times, t \in Times, g \in Garbage :
                call = PortionCall(a, from, to, t, g)
          \/ \E t \in (-1)..(MaxCut + 1), g \in Garbage :
                call = SegNCall(a, t, g)
          \/ \E tol \in Tols, g \in Garbage :
                call = RemoveShortCall(a, tol, g)
          \/ \E pb \in PbTables(a) :
                size(a) >= 2 /\ call = ComposeCall(a, pb)

NextFn ==
    \/ DoPartition
    \/ DoBinary
    \/ DoPortion
    \/ DoSegN
    \/ DoRemoveShort
    \/ ComposeStart
    \/ \E idx \in 0..(size(call.a) - 1) : ComposeStep(idx)
    \/ ComposeReturn

SpecFn == InitFn /\ [][NextFn]_vars

\* ================================================================ claims
RECURSIVE SortSet(_)
\* the elements of a finite set of integers, ascending
SortSet(S) ==
    IF S = {} THEN <<>>
    ELSE LET m == CHOOSE x \in S : \A y \in S : x <= y
         IN  <<m>> \o SortSet(S \ {m})

Done(fn) == pc = "done" /\ call.fn = fn
InDomain(pw, t) == Front(pw.cuts) <= t /\ t <= Back(pw.cuts)
InteriorCuts(pw) == {pw.cuts[i] : i \in 2..(Len(pw.cuts) - 1)}

\* C1: after construction and after every sequence of push, offsetDomain,
\* scaleDomain, setDomain, concat, continuousConcat, +=, -=, *=, /= that
\* has returned (no assertion has ended the program), the object meets
\* invariants(): cuts and segs both empty or one more cut than segments,
\* and the cuts strictly increasing.
C1_InvariantsHold == this.ok => invariants(this)

C1_Witness ==
    /\ this.ok
    /\ last.op = "concat"
    /\ size(this) >= 3
    /\ steps >= 2

\* C2: for any a and b that meet invariants() (an empty one and one with a
\* single cut and no segment included), partition(a, b.cuts) and
\* partition(b, a.cuts) return the same cuts and the same number of
\* segments, so the assertion pa.size() == pb.size() of the binary
\* operators holds and the operator returns.
C2_MutualPartitionsAgree ==
    Done("binary") =>
        /\ out.pa.ok /\ out.pb.ok
        /\ out.pa.cuts = out.pb.cuts
        /\ size(out.pa) = size(out.pb)
        /\ out.ret.ok

\* C3: partition(f, f.cuts) returns f's cuts and f's segments, in order,
\* each segment unchanged.
C3_PartitionByOwnCuts ==
    (Done("partition") /\ call.c = call.a.cuts) =>
        /\ out.ret.ok
        /\ out.ret.cuts = call.a.cuts
        /\ out.ret.segs = call.a.segs

C3_Witness ==
    /\ Done("partition")
    /\ call.c = call.a.cuts
    /\ size(call.a) >= 2
    /\ out.ret.segs = call.a.segs

\* C4: for a Piecewise with segments and strictly ascending extraCuts
\* (before, inside, on a cut of, or after the domain), partition returns
\* the strictly increasing merge of pw.cuts and extraCuts as its cuts, and
\* one segment fewer than cuts.
C4_PartitionCutsAreUnion ==
    (Done("partition") /\ ~empty(call.a) /\ Ascending(call.c)) =>
        /\ out.ret.ok
        /\ out.ret.cuts = SortSet(Range(call.a.cuts) \cup Range(call.c))
        /\ Len(out.ret.segs) + 1 = Len(out.ret.cuts)

\* cuts [0, 0.5, 1] and extraCuts [0.25, 0.75], in quarters
C4_Witness ==
    /\ Done("partition")
    /\ call.a.cuts = <<0, 2, 4>>
    /\ call.c = <<1, 3>>
    /\ out.ret.cuts = <<0, 1, 2, 3, 4>>
    /\ size(out.ret) = 4

\* C5: for f with segments, lo < hi inside f's domain (lo or hi on an
\* interior cut included) and lo <= t <= hi, portion(f, lo, hi) at t is f
\* at t: the same point of the same segment of f.
C5_PortionEvaluatesAsSource ==
    (/\ Done("portion")
     /\ ~empty(call.a)
     /\ call.from < call.to
     /\ InDomain(call.a, call.from) /\ InDomain(call.a, call.to)
     /\ call.from <= call.t /\ call.t <= call.to) =>
        /\ out.ok
        /\ valueAt(out, call.t, call.g) = valueAt(call.a, call.t, call.g)

\* C6: scaleDomain(0) returns and leaves cuts and segs both empty.
C6_ScaleByZeroCollapses ==
    (last.op = "scaleDomain" /\ last.x = Zero) =>
        (this.ok /\ this.cuts = <<>> /\ this.segs = <<>>)

\* C7: in the general case of compose, the check of two adjacent entries of
\* the pullback table passes when their tags differ by exactly 1 and a
\* segment is then appended; it fails only when they differ by more than
\* 1, and no such pair leads to an appended segment.
C7_PullbackCheck ==
    (call.fn = "compose" /\ pc # "start") =>
        /\ ~out.result.ok => out.diff > 1
        /\ out.result.ok => out.diff <= 1

\* C8: every in-place scalar operator leaves a with the cuts and the
\* segments of the value-returning operator applied to a as it was before,
\* for the empty a too.  (The in-place operators on two Piecewise values
\* are the value-returning operator followed by the assignment.)
SameValue(x, y) == x.cuts = y.cuts /\ x.segs = y.segs
C8_InPlaceIsValueReturning ==
    /\ last.op = "+=" => (this.ok /\ SameValue(this, OpAdd(last.before, last.x)))
    /\ last.op = "-=" => (this.ok /\ SameValue(this, OpSub(last.before, last.x)))
    /\ last.op = "*=" => (this.ok /\ SameValue(this, OpMul(last.before, last.x)))
    /\ last.op = "/=" => (this.ok /\ SameValue(this, OpDiv(last.before, last.x)))

C10_UnsortedCutsAssert ==
    (Done("partition") /\ \E i \in 1..(Len(call.c) - 1) : call.c[i] > call.c[i + 1]) =>
        ~out.ret.ok

\* C11: for pw with segments and from # to (either order, an endpoint on an
\* interior cut of pw included), portion(pw, from, to) returns a value that
\* meets invariants() and whose first and last cuts are min(from, to) and
\* max(from, to).
C11_PortionInvariants ==
    (Done("portion") /\ ~empty(call.a) /\ call.from # call.to) =>
        /\ out.ok
        /\ invariants(out)
        /\ Front(out.cuts) = Min(call.from, call.to)
        /\ Back(out.cuts) = Max(call.from, call.to)

\* the segment of pw that owns the global range [lo, hi]
Owner(pw, lo, hi) ==
    IF hi <= Front(pw.cuts) THEN 0
    ELSE IF lo >= Back(pw.cuts) THEN size(pw) - 1
    ELSE CHOOSE i \in 0..(size(pw) - 1) : At(pw.cuts, i) <= lo /\ hi <= At(pw.cuts, i + 1)
\* segment i of pw seen over the global range [lo, hi]
Restriction(pw, i, lo, hi) ==
    LET w == At(pw.cuts, i + 1) - At(pw.cuts, i)
    IN  SegPortion(At(pw.segs, i), Rat(lo - At(pw.cuts, i), w), Rat(hi - At(pw.cuts, i), w))

\* C12: for pw with segments and strictly ascending extraCuts, every
\* segment of partition(pw, extraCuts) over the result's cuts [r_k, r_k+1]
\* is the restriction to [r_k, r_k+1] of the segment of pw that owns that
\* range (segment 0 before the domain, the last one after it), and the
\* result evaluates as pw does at every t.
C12_PartitionSegmentsRestrict ==
    (Done("partition") /\ ~empty(call.a) /\ Ascending(call.c)) =>
        /\ out.ret.ok
        /\ Len(out.ret.segs) + 1 = Len(out.ret.cuts)
        /\ \A k \in 0..(size(out.ret) - 1) :
              LET lo == At(out.ret.cuts, k)
                  hi == At(out.ret.cuts, k + 1)
              IN  At(out.ret.segs, k) = Restriction(call.a, Owner(call.a, lo, hi), lo, hi)
        /\ \A t \in (-1)..(MaxCut + 1) :
              valueAt(out.ret, t, call.g) = valueAt(call.a, t, call.g)

\* a cut before the domain and one that splits the first of two segments
C12_Witness ==
    /\ Done("partition")
    /\ call.a.cuts = <<1, 3, 4>>
    /\ call.c = <<0, 2>>
    /\ out.ret.ok
    /\ out.ret.cuts = <<0, 1, 2, 3, 4>>
    /\ At(out.ret.segs, 0) = Restriction(call.a, 0, 0, 1)
    /\ At(out.ret.segs, 2) = Restriction(call.a, 0, 2, 3)
    /\ At(out.ret.segs, 3) = At(call.a.segs, 1)

\* the segments of f at least tol wide, and the short ones
Kept(f, tol) == {i \in 0..(size(f) - 1) : At(f.cuts, i + 1) - At(f.cuts, i) >= tol}
Short(f, tol) == (0..(size(f) - 1)) \ Kept(f, tol)

\* C13: in remove_short_cuts_extending(f, tol) every short segment of f
\* that has a kept segment before it lies, in the result, under a segment
\* that is the extension of the nearest kept segment before it, and the
\* result has f's first and last cuts.
C13_ShortMergedIntoPreceding ==
    (Done("remove_short_cuts_extending") /\ ~empty(call.a)) =>
        LET f == call.a
            kept == Kept(f, call.tol)
        IN  /\ out.ok
            /\ Front(out.cuts) = Front(f.cuts)
            /\ Back(out.cuts) = Back(f.cuts)
            /\ \A i \in Short(f, call.tol) :
                  (\E j \in kept : j < i) =>
                      LET p == CHOOSE j \in kept : j < i /\ \A q \in kept : q < i => q <= j
                      IN  \E k \in 0..(size(out) - 1) :
                             LET lo == At(out.cuts, k)
                                 hi == At(out.cuts, k + 1)
                             IN  /\ lo <= At(f.cuts, i) /\ At(f.cuts, i + 1) <= hi
                                 /\ At(out.segs, k) = Restriction(f, p, lo, hi)

\* C14: continuousConcat(other) leaves the receiver, the empty one
\* included, with the cuts and the number of segments concat(other) would
\* give it; its former cuts and segments are kept; for a receiver with
\* segments each appended segment is other's segment offset by the
\* receiver's end value minus other's start value, so the first appended
\* segment starts at the value the receiver ended with.
C14_ContinuousConcatAsConcat ==
    last.op = "continuousConcat" =>
        LET b == last.before
            o == last.x
            c == concat(b, o)
            n == size(b)
        IN  /\ this.ok
            /\ this.cuts = c.cuts
            /\ size(this) = size(c)
            /\ Slice(this.segs, 0, n) = b.segs
            /\ Slice(this.cuts, 0, Len(b.cuts)) = b.cuts
            /\ (~empty(b) /\ ~empty(o)) =>
                  LET y == RSub(SegValue(Back(b.segs), One), SegValue(Front(o.segs), Zero))
                  IN  /\ \A i \in 0..(size(o) - 1) :
                             At(this.segs, n + i) = SegOffset(At(o.segs, i), y)
                      /\ SegValue(At(this.segs, n), Zero) = SegValue(Back(b.segs), One)

\* C15: for pw that meets invariants() and strictly ascending extraCuts
\* (all of them before pw's domain, or all after it, included), partition
\* reads extraCuts, pw.cuts and pw.segs only at indices inside them.
C15_PartitionReadsInBounds ==
    (Done("partition") /\ invariants(call.a) /\ Ascending(call.c)) => ~out.oob

====
